---- MODULE Spec2Model ----
(***************************************************************************)
(* Model of alsa_trinkey.ino: a NeoPixel strip shows a colour code read    *)
(* from the serial port; two capacitive pads change the strip brightness.  *)
(***************************************************************************)
EXTENDS Integers, Sequences, FiniteSets, TLC

(***************************************************************************)
(* Bounds of the model.                                                    *)
(***************************************************************************)
\* most messages the host may have written before the sketch polls again
MaxPending == 2
\* longest run of consecutive one-pad ticks that is tracked
MaxRun == 5

(***************************************************************************)
(* Program constants.                                                      *)
(***************************************************************************)
\* NUM_NEOPIXEL of the board (Neo Trinkey), the strip length
NumPixels == 4
\* the touch threshold of both pads
TouchThreshold == 500
\* brightness ceiling
MaxBrightness == 255
\* the modulus / divisor that splits a code into bit depth and sample rate
CodeBase == 8

\* sample_cols[], 0-based index i is sample_cols[i + 1] here
sample_cols == << "black", "yellow", "orange", "lightcyan", "darkcyan",
                  "lightmagenta", "magenta", "cream", "white", "darkred" >>
\* bit_cols[], 0-based index i is bit_cols[i + 1] here
bit_cols == << "black", "red", "green", "blue", "darkred" >>

\* what a read past the end (or before the start) of a table may return:
\* the word that happens to lie there, which may or may not look like the
\* table's last entry
OobValues == { "darkred", "stray" }

\* the messages the host writes, as the characters that travel on the wire
Tokens == { << "1", "7", "\n" >>, << "8", "5", "\n" >> }

\* raw readings qt_N.measure() returns
TouchReadings == { 500, 501 }

VARIABLES
    pc,              \* "boot" before setup(), "run" afterwards
    neo_brightness,  \* int16_t neo_brightness
    x,               \* int x, the last decoded code
    rx,              \* the serial receive buffer: pending messages, oldest first
    touch1, touch2,  \* the readings of the most recent tick
    pix,             \* the strip's pixel buffer, pixel index -> colour
    level,           \* the strip's brightness level
    shown,           \* what the last strip.show() put on the LEDs
    calls,           \* strip.show()/setBrightness() calls of the most recent tick
    b0,              \* neo_brightness when the most recent tick began
    nread,           \* messages taken from the buffer by the most recent tick
    runKind, runLen, runBase  \* observer of runs of one-pad ticks (SpecRamp)

vars == << pc, neo_brightness, x, rx, touch1, touch2, pix, level, shown,
           calls, b0, nread, runKind, runLen, runBase >>

Max(a, b) == IF a >= b THEN a ELSE b
Min(a, b) == IF a <= b THEN a ELSE b

\* C++ integer division and remainder truncate towards zero
CDiv(a, b) == IF a >= 0 THEN a \div b ELSE -((-a) \div b)
CMod(a, b) == IF a >= 0 THEN a % b ELSE -((-a) % b)

\* conversion to int16_t and to uint8_t
ToInt16(v) == ((v + 32768) % 65536) - 32768
ToUint8(v) == v % 256

(***************************************************************************)
(* Serial.readString().toInt()                                             *)
(***************************************************************************)
RECURSIVE Flatten(_)
Flatten(ts) == IF ts = << >> THEN << >> ELSE Head(ts) \o Flatten(Tail(ts))

IsDigit(c) == c \in { "0", "1", "2", "3", "4", "5", "6", "7", "8", "9" }
DigitVal(c) == CASE c = "0" -> 0 [] c = "1" -> 1 [] c = "2" -> 2 [] c = "3" -> 3
                 [] c = "4" -> 4 [] c = "5" -> 5 [] c = "6" -> 6 [] c = "7" -> 7
                 [] c = "8" -> 8 [] c = "9" -> 9
IsSpace(c) == c \in { " ", "\n", "\t", "\r" }

RECURSIVE SkipSpace(_)
SkipSpace(s) == IF s # << >> /\ IsSpace(Head(s)) THEN SkipSpace(Tail(s)) ELSE s

RECURSIVE Digits(_, _)
Digits(s, acc) ==
    IF s # << >> /\ IsDigit(Head(s))
    THEN Digits(Tail(s), acc * 10 + DigitVal(Head(s)))
    ELSE acc

\* String::toInt(): leading white space, an optional sign, then digits up to
\* the first character that is no digit; 0 when there are none
toInt(str) ==
    LET s == SkipSpace(str)
    IN  IF s = << >> THEN 0
        ELSE IF Head(s) = "-" THEN -Digits(Tail(s), 0)
        ELSE IF Head(s) = "+" THEN Digits(Tail(s), 0)
        ELSE Digits(s, 0)

\* Serial.available(): bytes waiting in the receive buffer
available(buf) == Len(Flatten(buf))

\* variant of readCount: one message per call
readCountOne(buf) == Min(1, Len(buf))

\* Serial.readString(): every character that arrives until the stream stays
\* silent for the timeout, i.e. everything that is buffered; the number of
\* messages it takes from the buffer
readCount(buf) == Len(buf)
readString(buf) == Flatten(SubSeq(buf, 1, readCount(buf)))

(***************************************************************************)
(* The strip driver.                                                       *)
(***************************************************************************)
Pixels == 0 .. (NumPixels - 1)

setPixelColor(p, n, c) == IF n \in Pixels THEN [p EXCEPT ![n] = c] ELSE p

\* variant of fill: the fill starts at pixel 0
fillFromZero(p, c, first, count) ==
    LET end == Min(first + count, NumPixels)
    IN  [n \in Pixels |-> IF n < end THEN c ELSE p[n]]

\* fill(c, first, count): pixels first .. first+count-1, cut at the strip's end
fill(p, c, first, count) ==
    LET end == Min(first + count, NumPixels)
    IN  [n \in Pixels |-> IF n >= first /\ n < end THEN c ELSE p[n]]

Frame(p, l) == [pix |-> p, level |-> l]

\* the strip part of the state that the three blocks of loop() work on
Strip(p, l, s, c) == [pix |-> p, level |-> l, shown |-> s, calls |-> c]

bitIndex(code) == CMod(code, CodeBase)
rateIndex(code) == CDiv(code, CodeBase)

\* bit_cols[i] and sample_cols[i] as the sketch reads them: unchecked
readBitCol(i, g) == IF i >= 0 /\ i < Len(bit_cols) THEN bit_cols[i + 1] ELSE g
readSampleCol(i, g) == IF i >= 0 /\ i < Len(sample_cols) THEN sample_cols[i + 1] ELSE g

\* variant: the fill colour is taken from the pixel buffer (what pixel 0 held
\* before this render) instead of the table
RenderStale(st, code, src, g) ==
    LET bi == bitIndex(code)
        ri == rateIndex(code)
        p1 == setPixelColor(st.pix, 0, readBitCol(bi, g[1]))
        p2 == fill(p1, st.pix[0], 1, NumPixels)
    IN  Strip(p2, st.level, Frame(p2, st.level),
              Append(st.calls, [op |-> "show", src |-> src, bitIdx |-> bi,
                                rateIdx |-> ri, pix |-> p2, level |-> st.level]))

\* setPixelColor(0, bit_cols[x % 8]); fill(sample_cols[x / 8], 1, NUM_NEOPIXEL); show()
\* g is what the two table reads return if they fall outside the tables
Render(st, code, src, g) ==
    LET bi == bitIndex(code)
        ri == rateIndex(code)
        p1 == setPixelColor(st.pix, 0, readBitCol(bi, g[1]))
        p2 == fill(p1, readSampleCol(ri, g[2]), 1, NumPixels)
    IN  Strip(p2, st.level, Frame(p2, st.level),
              Append(st.calls, [op |-> "show", src |-> src, bitIdx |-> bi,
                                rateIdx |-> ri, pix |-> p2, level |-> st.level]))

\* variant: the call is logged but the level is not taken over
setBrightnessLost(st, v, src) ==
    Strip(st.pix, st.level, st.shown,
          Append(st.calls, [op |-> "setBrightness", src |-> src, bitIdx |-> 0,
                            rateIdx |-> 0, pix |-> st.pix, level |-> v]))

\* strip.setBrightness(v), v converted to the uint8_t parameter
setBrightness(st, v, src) ==
    Strip(st.pix, ToUint8(v), st.shown,
          Append(st.calls, [op |-> "setBrightness", src |-> src, bitIdx |-> 0,
                            rateIdx |-> 0, pix |-> st.pix, level |-> v]))

(***************************************************************************)
(* The blocks of loop().                                                   *)
(***************************************************************************)
\* variant: the threshold itself counts as a touch
TouchedGe(t) == t >= TouchThreshold
Touched(t) == t > TouchThreshold

\* variants: no floor; a step of two
DecNoClamp(b) == ToInt16(b - 1)
IncTwo(b) == ToInt16(Min(MaxBrightness, b + 2))
DecBrightness(b) == ToInt16(Max(0, b - 1))
IncBrightness(b) == ToInt16(Min(MaxBrightness, b + 1))

\* if (Serial.available() > 0) { x = ...; render }
DecodeBlock(st, code, g) == Render(st, code, "decode", g)

\* variant: the touch block repaints code 0 instead of the kept code
Touch1Blank(st, code, b, g) ==
    LET r == Render(st, 0, "touch1", g)
    IN  CHOOSE s \in { setBrightness(r, DecBrightness(b), "touch1") } : TRUE

\* if (touch1 > 500) { render; neo_brightness = max(0, neo_brightness-1); setBrightness }
Touch1Block(st, code, b, g) ==
    LET r == Render(st, code, "touch1", g)
    IN  CHOOSE s \in { setBrightness(r, DecBrightness(b), "touch1") } : TRUE

\* if (touch2 > 500) { render; neo_brightness = min(255, neo_brightness+1); setBrightness }
Touch2Block(st, code, b, g) ==
    LET r == Render(st, code, "touch2", g)
    IN  CHOOSE s \in { setBrightness(r, IncBrightness(b), "touch2") } : TRUE

Init ==
    /\ pc = "boot"
    /\ neo_brightness = 20
    /\ x = 0
    /\ rx = << >>
    /\ touch1 = 0
    /\ touch2 = 0
    /\ pix = [n \in Pixels |-> "black"]
    /\ level = 255
    /\ shown = Frame([n \in Pixels |-> "black"], 255)
    /\ calls = << >>
    /\ b0 = 20
    /\ nread = 0
    /\ runKind = "none"
    /\ runLen = 0
    /\ runBase = 20

\* setup(): strip.setBrightness(neo_brightness); strip.show()
setup ==
    /\ pc = "boot"
    /\ pc' = "run"
    /\ LET st == setBrightness(Strip(pix, level, shown, << >>), neo_brightness, "setup")
       IN  /\ pix' = st.pix
           /\ level' = st.level
           /\ shown' = Frame(st.pix, st.level)
           /\ calls' = Append(st.calls, [op |-> "show", src |-> "setup", bitIdx |-> 0,
                                         rateIdx |-> 0, pix |-> st.pix, level |-> st.level])
    /\ UNCHANGED << neo_brightness, x, rx, touch1, touch2, b0, nread,
                    runKind, runLen, runBase >>

\* the host writes one more message to the serial port
HostSend ==
    /\ pc = "run"
    /\ Len(rx) < MaxPending
    /\ \E t \in Tokens : rx' = Append(rx, t)
    /\ UNCHANGED << pc, neo_brightness, x, touch1, touch2, pix, level, shown,
                    calls, b0, nread, runKind, runLen, runBase >>

\* the outcomes of the two table reads of the renders of one tick: a choice
\* only where the index lies outside its table
OobPairs(code) ==
    { g \in OobValues \X OobValues :
        /\ (bitIndex(code) >= 0 /\ bitIndex(code) < Len(bit_cols)) => g[1] = "darkred"
        /\ (rateIndex(code) >= 0 /\ rateIndex(code) < Len(sample_cols)) => g[2] = "darkred" }

\* one pass of loop(), without the run observer; the readings of the two
\* pads are whatever the sensors return
LoopBody ==
    /\ pc = "run"
    /\ \E avail \in { available(rx) > 0 } :
       \E code \in { IF avail THEN toInt(readString(rx)) ELSE x } :
       \E taken \in { IF avail THEN readCount(rx) ELSE 0 } :
       \E g \in OobPairs(code) :
       \E s1 \in { IF avail THEN DecodeBlock(Strip(pix, level, shown, << >>), code, g)
                            ELSE Strip(pix, level, shown, << >>) } :
       \E t1 \in TouchReadings :
       \E s2 \in { IF Touched(t1) THEN Touch1Block(s1, code, neo_brightness, g) ELSE s1 } :
       \E nb1 \in { IF Touched(t1) THEN DecBrightness(neo_brightness) ELSE neo_brightness } :
       \E t2 \in TouchReadings :
       \E s3 \in { IF Touched(t2) THEN Touch2Block(s2, code, nb1, g) ELSE s2 } :
       \E nb2 \in { IF Touched(t2) THEN IncBrightness(nb1) ELSE nb1 } :
           /\ x' = code
           /\ rx' = SubSeq(rx, taken + 1, Len(rx))
           /\ nread' = taken
           /\ touch1' = t1
           /\ touch2' = t2
           /\ neo_brightness' = nb2
           /\ pix' = s3.pix
           /\ level' = s3.level
           /\ shown' = s3.shown
           /\ calls' = s3.calls
    /\ b0' = neo_brightness
    /\ UNCHANGED pc

loop ==
    /\ LoopBody
    /\ UNCHANGED << runKind, runLen, runBase >>

Next == setup \/ HostSend \/ loop

Spec == Init /\ [][Next]_vars

(***************************************************************************)
(* The same program with an observer of runs of ticks in which only one    *)
(* pad is touched: runBase is Brightness when the run began, runLen the    *)
(* number of its ticks so far. A run may be taken to begin at any tick.    *)
(***************************************************************************)
MaxPendingRamp == 1

HostSendRamp ==
    /\ Len(rx) < MaxPendingRamp
    /\ HostSend

padKind(t1, t2) ==
    IF Touched(t1) /\ ~Touched(t2) THEN "dec"
    ELSE IF Touched(t2) /\ ~Touched(t1) THEN "inc"
    ELSE "none"

loopRamp ==
    /\ LoopBody
    /\ runKind' = padKind(touch1', touch2')
    /\ IF padKind(touch1', touch2') = "none"
       THEN runLen' = 0 /\ runBase' = 0
       ELSE \/ /\ runKind = padKind(touch1', touch2')
               /\ runLen < MaxRun
               /\ runLen' = runLen + 1
               /\ runBase' = runBase
            \/ /\ runLen' = 1
               /\ runBase' = neo_brightness

NextRamp == setup \/ HostSendRamp \/ loopRamp

SpecRamp == Init /\ [][NextRamp]_vars

(***************************************************************************)
(* The same program with a host that writes one message at a time (it      *)
(* waits until the last one was read) but a wider choice of messages: an   *)
(* in-range code, both sentinel entries, both indices past their tables,   *)
(* zero, text that is no number, and a negative number.                    *)
(***************************************************************************)
CodeTokens == { << "1", "7", "\n" >>, << "8", "5", "\n" >>, << "7", "6", "\n" >>,
                << "0", "\n" >>, << "a", "\n" >>, << "-", "1", "\n" >> }

HostSendOne ==
    /\ pc = "run"
    /\ rx = << >>
    /\ \E t \in CodeTokens : rx' = << t >>
    /\ UNCHANGED << pc, neo_brightness, x, touch1, touch2, pix, level, shown,
                    calls, b0, nread, runKind, runLen, runBase >>

NextCodes == setup \/ HostSendOne \/ loop

SpecCodes == Init /\ [][NextCodes]_vars

(***************************************************************************)
(* Properties.                                                             *)
(***************************************************************************)
ShowIdx(src) == { i \in DOMAIN calls : calls[i].op = "show" /\ calls[i].src = src }
SetIdx(src) == { i \in DOMAIN calls : calls[i].op = "setBrightness" /\ calls[i].src = src }
TouchSrc == { "touch1", "touch2" }
RenderSrc == { "decode", "touch1", "touch2" }
Ticked == pc = "run" /\ touch1 # 0
InRange(code) == code >= 0 /\ (code % 8) <= 4 /\ (code \div 8) <= 9
\* a step of loop(): the only steps after setup() that do not add a message
LoopStep == pc = "run" /\ Len(rx') <= Len(rx)

\* C1: Brightness stays within [0,255] in every reachable state, and so does
\* every value handed to the driver's setBrightness; nothing wraps (the
\* driver's level is the value itself).
C1_BrightnessInRange ==
    /\ neo_brightness \in 0 .. 255
    /\ \A i \in DOMAIN calls :
          calls[i].op = "setBrightness" => calls[i].level \in 0 .. 255
    /\ pc = "run" => level = neo_brightness

\* C1 witness: pad 1 touched at Brightness 0, where an unclamped step would
\* leave the range.
C1_Witness ==
    /\ Ticked /\ Touched(touch1) /\ ~Touched(touch2)
    /\ b0 = 0 /\ neo_brightness = 0 /\ SetIdx("touch1") # {}

\* C2 as stated: a tick in which both pads are touched leaves Brightness
\* where it was, for every starting value, 0 and 255 included.
C2_BothPadsCancel ==
    (Ticked /\ Touched(touch1) /\ Touched(touch2)) => neo_brightness = b0

\* C2 amended: a tick in which both pads are touched runs both adjustments;
\* from 1..255 Brightness ends where it began, from 0 it ends at 1 (the
\* floor absorbs the decrement, the increment still applies).
C2_BothPadsCancelAboveZero ==
    (Ticked /\ Touched(touch1) /\ Touched(touch2)) =>
        /\ SetIdx("touch1") # {} /\ SetIdx("touch2") # {}
        /\ neo_brightness = (IF b0 = 0 THEN 1 ELSE b0)

\* C2 witness: both pads touched at Brightness 0.
C2_Witness ==
    /\ Ticked /\ Touched(touch1) /\ Touched(touch2)
    /\ b0 = 0 /\ neo_brightness = 1

\* C3 as stated: for a code >= 0 every render reads both tables in bounds,
\* and an index past a table shows that table's sentinel colour.
C3_ReadsInBounds ==
    \A i \in DOMAIN calls :
        (calls[i].op = "show" /\ calls[i].src \in RenderSrc /\ x >= 0) =>
            /\ calls[i].bitIdx \in 0 .. 4
            /\ calls[i].rateIdx \in 0 .. 9
            /\ (x % 8) >= 5 => calls[i].pix[0] = "darkred"
            /\ (x \div 8) >= 9 => \A n \in 1 .. (NumPixels - 1) : calls[i].pix[n] = "darkred"

\* C4 as stated: the refresh of a touch block shows the pixels at the
\* Brightness that block has just set.
C4_RefreshShowsNewBrightness ==
    \A i, j \in DOMAIN calls :
        ( /\ calls[i].op = "show" /\ calls[i].src \in TouchSrc
          /\ calls[j].op = "setBrightness" /\ calls[j].src = calls[i].src ) =>
            calls[i].level = calls[j].level

\* C5 as stated: a tick that finds messages pending takes exactly one,
\* stores it as the code and leaves the others buffered.
C5_OneTokenPerTick ==
    [][ (LoopStep /\ rx # << >>) =>
            /\ rx' = Tail(rx)
            /\ x' = toInt(Head(rx)) ]_vars

\* C5 amended: a tick that finds messages pending takes all of them at
\* once, stores the number the first one spells as the code, renders it
\* once, and the later messages of the burst are gone.
C5_WholeBurstPerTick ==
    [][ (LoopStep /\ rx # << >>) =>
            /\ rx' = << >>
            /\ nread' = Len(rx)
            /\ x' = toInt(Head(rx))
            /\ Cardinality({ i \in DOMAIN calls' : calls'[i].src = "decode" }) = 1 ]_vars

\* C5 witness: a tick took a burst of two messages.
C5_Witness == Ticked /\ nread = 2 /\ x = 17 /\ rx = << >>

\* C6: in the tick a code with both indices in range is received, pixel 0
\* is set to bit_cols[code mod 8], every other pixel to
\* sample_cols[code / 8], and the strip is refreshed, before any touch block
\* runs; 17 gives red on pixel 0 and orange on the others, 0 gives black
\* throughout.
C6_DecodeRenders ==
    (Ticked /\ nread > 0 /\ InRange(x)) =>
        /\ calls # << >>
        /\ calls[1].op = "show" /\ calls[1].src = "decode"
        /\ calls[1].pix[0] = bit_cols[(x % 8) + 1]
        /\ \A n \in 1 .. (NumPixels - 1) : calls[1].pix[n] = sample_cols[(x \div 8) + 1]
        /\ \A i \in DOMAIN calls : calls[i].src \in TouchSrc => i > 1
        /\ x = 17 => calls[1].pix = [n \in Pixels |-> IF n = 0 THEN "red" ELSE "orange"]
        /\ x = 0 => calls[1].pix = [n \in Pixels |-> "black"]

\* C6 witness: code 17 arrives in a tick in which a pad is touched as well.
C6_Witness ==
    /\ Ticked /\ nread > 0 /\ x = 17 /\ Touched(touch1)
    /\ calls[1].src = "decode" /\ calls[1].pix[0] = "red" /\ calls[1].pix[3] = "orange"

\* C7: after n consecutive ticks with only pad 1 touched, starting from
\* Brightness b, Brightness is max(0, b - n); with only pad 2 touched it is
\* min(255, b + n); at the end of each such tick the driver's level is the
\* current Brightness.
C7_LevelTriggeredRamp ==
    /\ runKind = "dec" =>
          neo_brightness = Max(0, runBase - runLen) /\ level = neo_brightness
    /\ runKind = "inc" =>
          neo_brightness = Min(255, runBase + runLen) /\ level = neo_brightness

\* C7 witness: five ticks with pad 1 held, from 20 down to 15.
C7_Witness ==
    runKind = "dec" /\ runBase = 20 /\ runLen = 5 /\ neo_brightness = 15 /\ level = 15

\* C8: rendering twice in a row with the code and Brightness unchanged (the
\* decode block's render followed by the touch-1 block's render of the same
\* tick), for a code with both indices in range, puts out the same frame:
\* the same colour on every pixel and the same brightness level.
C8_RenderIdempotent ==
    (Ticked /\ nread > 0 /\ Touched(touch1) /\ InRange(x)) =>
        /\ Len(calls) >= 2
        /\ calls[1].op = "show" /\ calls[2].op = "show"
        /\ calls[1].src = "decode" /\ calls[2].src = "touch1"
        /\ calls[2].pix = calls[1].pix
        /\ calls[2].level = calls[1].level

\* C8 witness: code 17 is decoded and pad 1 is touched in the same tick.
C8_Witness ==
    /\ Ticked /\ nread > 0 /\ Touched(touch1) /\ x = 17
    /\ Len(calls) >= 2 /\ calls[2].src = "touch1" /\ calls[2].pix[0] = "red"

\* every render of a touch block reads the tables at the kept code's
\* indices and, where they are in range, paints that code's colours
TouchRendersLastCode ==
    \A i \in DOMAIN calls :
        (calls[i].op = "show" /\ calls[i].src \in TouchSrc) =>
            /\ calls[i].bitIdx = CMod(x, 8) /\ calls[i].rateIdx = CDiv(x, 8)
            /\ InRange(x) =>
                  /\ calls[i].pix[0] = bit_cols[(x % 8) + 1]
                  /\ \A n \in 1 .. (NumPixels - 1) :
                        calls[i].pix[n] = sample_cols[(x \div 8) + 1]

\* C9: the code x changes only in a tick that finds serial data; the touch
\* blocks never change it, and each of their renders paints the colours of
\* the code decoded last (code 0, all black, before any input).
C9_LastCodePersists ==
    /\ [](TouchRendersLastCode)
    /\ [][ x' # x => (LoopStep /\ rx # << >> /\ nread' > 0) ]_vars

\* C9 witness: a touch render in a tick without input, the code still 17.
C9_Witness ==
    /\ Ticked /\ nread = 0 /\ x = 17 /\ Touched(touch1)
    /\ calls # << >> /\ calls[1].src = "touch1" /\ calls[1].pix[0] = "red"

\* C10: Brightness changes only in a tick with a reading above 500; a tick
\* with both readings at or below 500 leaves Brightness and the driver's
\* level as they were, and if no serial data is pending either it writes no
\* pixel, refreshes nothing and leaves the code as it was.
C10_IdleTickChangesNothing ==
    /\ [][ neo_brightness' # neo_brightness =>
              (LoopStep /\ (touch1' > 500 \/ touch2' > 500)) ]_vars
    /\ [][ (LoopStep /\ touch1' <= 500 /\ touch2' <= 500) =>
              /\ neo_brightness' = neo_brightness
              /\ level' = level
              /\ rx = << >> =>
                    /\ pix' = pix /\ shown' = shown /\ x' = x
                    /\ calls' = << >> ]_vars

\* C10 witness: a tick with both readings exactly 500 and no input.
C10_Witness ==
    /\ Ticked /\ touch1 = 500 /\ touch2 = 500 /\ nread = 0
    /\ calls = << >> /\ neo_brightness = b0

====
